---- MODULE Spec2Model ----
(***************************************************************************)
(* Blood Test Report Analyser: the HTTP front end (main.py), the RQ worker *)
(* (worker.py), the analysis pipeline boundary (analysis.py) and the       *)
(* analyses table (database.py).                                           *)
(*                                                                         *)
(* The API process and the worker processes share the data/ and outputs/   *)
(* directories and the analyses table.  main.py never touches the table    *)
(* or the queue: the producer that inserts rows and enqueues               *)
(* process_analysis calls, the redelivery of a call and the deletion of a  *)
(* row are not in the source and are modelled from the specification       *)
(* (Submit, Redeliver, JobStoreDelete).                                    *)
(***************************************************************************)
EXTENDS Integers, Sequences, FiniteSets, TLC

\* ---------------------------------------------------------------- bounds
MaxJobs == 2
NumWorkers == 2
MaxReq == 2
MaxRedeliver == 1
MaxClock == 1

Jobs == 1..MaxJobs
Workers == 1..NumWorkers
Reqs == 1..MaxReq
NoJob == 0

\* Staged paths: data/blood_test_report_<uuid>.pdf, one fresh uuid per upload.
JobPath(j) == j
\* Line 164 with a fixed name in place of uuid.uuid4().
ReqPathFixed(r) == MaxJobs + 1
ReqPath(r) == MaxJobs + r
Paths == 1..(MaxJobs + MaxReq)

\* ----------------------------------------------------------------- texts
\* A text is a sequence of tokens, so that "begins with" is computed.
NoText == <<>>
Report == <<"report">>
NotFoundText == <<"Error", ":", " Blood test report not found">>
CrewErrorText == <<"Error", " running crew analysis", ":", " provider timeout">>
\* str() of the JobTimeoutException that RQ raises in the job at its deadline,
\* as run_crew returns it.
DeadlineText == <<"Error", " running crew analysis", ":",
                  " Task exceeded maximum timeout value">>
TimeoutExceeded == <<"timeout exceeded">>
StaleText == <<"UPDATE statement expected to update 1 row(s); 0 were matched">>
WorkerErrorText(cause) == <<"Error", ":">> \o cause
BeginsWith(t, p) == Len(t) >= Len(p) /\ SubSeq(t, 1, Len(p)) = p
ErrorColon == <<"Error", ":">>

\* ----------------------------------------------------- the analyses table
\* Column default of status is "pending"; analysis_result is NULL (NoText).
NoRecord == [status |-> "absent", analysis_result |-> NoText]
Analysis == [status |-> "pending", analysis_result |-> NoText]

Terminal == {"completed", "failed", "cancelled"}

VARIABLES
    store,      \* analyses table: job id -> row, or NoRecord
    nextJob,    \* ids 1..nextJob-1 have been submitted
    queue,      \* the RQ queue "blood_test_analyses": job ids, FIFO
    redelivered,\* number of redeliveries so far
    files,      \* existing files under data/
    outputs,    \* existing files under outputs/: <<staged path, timestamp>>
    now,        \* wall clock, seconds
    wk,         \* per worker: position in process_analysis and its locals
    req,        \* per HTTP intake request: position in analyze_blood_report
    invokedBy,  \* kinds of process that have called run_crew
    deleteLog,  \* job ids a DELETE was requested for while pending
    lostWhile,  \* workers whose job's row was deleted while they processed it
    rmFailed,   \* staged paths whose os.remove failed
    lastDelete, \* the latest response of DELETE /analyses/{id}
    listed,     \* the body of the latest response of GET /analyses
    agentTools, \* per process: the file_path of the tool its agents hold
    crew        \* per process: position inside run_crew, and what it read

vars == <<store, nextJob, queue, redelivered, files, outputs, now, wk, req,
          invokedBy, deleteLog, lostWhile, rmFailed, lastDelete, listed,
          agentTools, crew>>

\* The processes that import agents.py: the API (uvicorn.run, one process) and
\* the worker processes started by main() of worker.py.
ApiProc == 0
Procs == {ApiProc} \cup Workers
\* data/sample.pdf, the default file_path of BloodTestReportTool.
SamplePath == 0
NoCrew == [pc |-> "idle", path |-> SamplePath, read |-> SamplePath]

\* No DELETE answered yet.  after200 tells that the request directly before
\* was a DELETE of the same id answered 200.
NoId == [kind |-> "none", a |-> 0, b |-> 0]
NoResponse == [id |-> NoId, code |-> 0, after200 |-> FALSE]

IdleWorker == [pc |-> "idle", job |-> NoJob, analysis |-> NoRecord,
               result |-> NoText, err |-> NoText, ret |-> "none"]
NewReq == [pc |-> "new", filename |-> <<>>, body |-> "none",
           code |-> 0, status |-> "none", analysis_id |-> NoJob,
           analysis |-> NoText]

Init ==
    /\ store = [j \in Jobs |-> NoRecord]
    /\ nextJob = 1
    /\ queue = <<>>
    /\ redelivered = 0
    /\ files = {}
    /\ outputs = {}
    /\ now = 0
    /\ wk = [w \in Workers |-> IdleWorker]
    /\ req = [r \in Reqs |-> NewReq]
    /\ invokedBy = {}
    /\ deleteLog = {}
    /\ lostWhile = {}
    /\ rmFailed = {}
    /\ lastDelete = NoResponse
    /\ listed = <<>>
    /\ agentTools = [p \in Procs |-> SamplePath]
    /\ crew = [p \in Procs |-> NoCrew]

\* ------------------------------------------------------------ environment
\* Producer (not in the source): stage the PDF, insert the pending row, enqueue
\* process_analysis(analysis_id, query, file_path).
Submit ==
    /\ nextJob <= MaxJobs
    /\ store' = [store EXCEPT ![nextJob] = Analysis]
    /\ files' = files \cup {JobPath(nextJob)}
    /\ queue' = Append(queue, nextJob)
    /\ nextJob' = nextJob + 1
    /\ UNCHANGED <<redelivered, outputs, now, wk, req, invokedBy, deleteLog,
                   lostWhile, rmFailed,
                   lastDelete, listed, agentTools, crew>>

\* The broker hands an already enqueued call to a worker once more.
Redeliver(j) ==
    /\ j < nextJob
    /\ redelivered < MaxRedeliver
    /\ queue' = Append(queue, j)
    /\ redelivered' = redelivered + 1
    /\ UNCHANGED <<store, nextJob, files, outputs, now, wk, req, invokedBy,
                   deleteLog, lostWhile, rmFailed,
                   lastDelete, listed, agentTools, crew>>

\* Job Store delete(id): the row is removed, whatever its status.
JobStoreDelete(j) ==
    /\ store[j] # NoRecord
    /\ store' = [store EXCEPT ![j] = NoRecord]
    /\ lostWhile' = lostWhile \cup
         {w \in Workers : /\ wk[w].job = j
                          /\ wk[w].pc \in {"run", "complete"}
                          /\ wk[w].analysis # NoRecord}
    /\ UNCHANGED <<nextJob, queue, redelivered, files, outputs, now, wk, req,
                   invokedBy, deleteLog, rmFailed,
                   lastDelete, listed, agentTools, crew>>

Tick ==
    /\ now < MaxClock
    /\ now' = now + 1
    /\ UNCHANGED <<store, nextJob, queue, redelivered, files, outputs, wk, req,
                   invokedBy, deleteLog, lostWhile, rmFailed,
                   lastDelete, listed, agentTools, crew>>

\* ------------------------------------------------------------ analysis.py
\* save_analysis_result: outputs/<stem>_<YYYYmmdd_HHMMSS>.json, opened "w";
\* any exception is printed and swallowed (saved = FALSE).
save_analysis_result(out, path, t, saved) ==
    IF saved THEN out \cup {<<path, t>>} ELSE out

\* run_crew without its existence check and its try/except: a failure leaves
\* the caller without a value.
run_crewUnguarded(path, fs, out, t) ==
    IF path \notin fs
    THEN {[result |-> NoText, outputs |-> out]}
    ELSE {[result |-> NoText, outputs |-> out]}
         \cup {[result |-> Report,
                outputs |-> save_analysis_result(out, path, t, saved)] :
               saved \in BOOLEAN}

\* run_crew with the record written before the outcome of kickoff is known.
run_crewSavesFirst(path, fs, out, t) ==
    IF path \notin fs
    THEN {[result |-> NotFoundText, outputs |-> out]}
    ELSE {[result |-> res,
           outputs |-> save_analysis_result(out, path, t, saved)] :
          res \in {CrewErrorText, Report}, saved \in BOOLEAN}

\* run_crew: the outcomes [result, outputs] of one call.  It never raises:
\* a missing file and a raising kickoff both come back as a text.
run_crew(path, fs, out, t) ==
    IF path \notin fs
    THEN {[result |-> NotFoundText, outputs |-> out]}
    ELSE {[result |-> CrewErrorText, outputs |-> out]}
         \cup {[result |-> Report,
                outputs |-> save_analysis_result(out, path, t, saved)] :
               saved \in BOOLEAN}

\* --------------------------------------------------------------- worker.py
\* The success path with lines 58-64 left out.
CleanupSuccessSkipped(fs, p, removed) == fs
\* os.path.exists / os.remove of the success path (lines 59-64) and of the
\* except path (lines 85-89); removed = FALSE is an os.remove that raised.
CleanupSuccess(fs, p, removed) == IF p \in fs /\ removed THEN fs \ {p} ELSE fs
CleanupError(fs, p, removed) == IF p \in fs /\ removed THEN fs \ {p} ELSE fs
RemoveFailed(fs, p, removed) == IF p \in fs /\ ~removed THEN {p} ELSE {}

\* The columns the unit of work writes: those set to a value that differs from
\* the loaded one.
Dirty(loaded, new) ==
    {c \in {"status", "analysis_result"} : loaded[c] # new[c]}
Written(row, loaded, new) ==
    [c \in {"status", "analysis_result"} |->
        IF c \in Dirty(loaded, new) THEN new[c] ELSE row[c]]

\* RQ pops the call; lines 35-40: open a session and load the row.
W_Begin(w) ==
    /\ wk[w].pc = "idle"
    /\ queue # <<>>
    /\ queue' = Tail(queue)
    /\ wk' = [wk EXCEPT ![w] = [IdleWorker EXCEPT !.pc = "setproc",
                                                  !.job = Head(queue),
                                                  !.analysis = store[Head(queue)]]]
    /\ lostWhile' = lostWhile \ {w}
    /\ UNCHANGED <<store, nextJob, redelivered, files, outputs, now, req,
                   invokedBy, deleteLog, rmFailed,
                   lastDelete, listed, agentTools, crew>>

\* Lines 43-45.  dbok = FALSE: the commit raises (database locked).  An UPDATE
\* that matches no row raises StaleDataError.
W_SetProcessing(w) ==
    LET j == wk[w].job
        a == wk[w].analysis
        new == [a EXCEPT !.status = "processing"]
    IN  /\ wk[w].pc = "setproc"
        /\ \E dbok \in BOOLEAN :
             IF a = NoRecord \/ Dirty(a, new) = {}
             THEN /\ dbok
                  /\ wk' = [wk EXCEPT ![w].pc = "run"]
                  /\ store' = store
             ELSE IF ~dbok
             THEN /\ wk' = [wk EXCEPT ![w].pc = "except",
                                      ![w].err = <<"database is locked">>]
                  /\ store' = store
             ELSE IF store[j] = NoRecord
             THEN /\ wk' = [wk EXCEPT ![w].pc = "except", ![w].err = StaleText]
                  /\ store' = store
             ELSE /\ wk' = [wk EXCEPT ![w].pc = "run"]
                  /\ store' = [store EXCEPT ![j] = Written(store[j], a, new)]
        /\ UNCHANGED <<nextJob, queue, redelivered, files, outputs, now, req,
                       invokedBy, deleteLog, lostWhile, rmFailed,
                       lastDelete, listed, agentTools, crew>>

\* Line 48.
W_RunCrew(w) ==
    /\ wk[w].pc = "run"
    /\ \E o \in run_crew(JobPath(wk[w].job), files, outputs, now) :
         /\ wk' = [wk EXCEPT ![w].pc = "complete", ![w].result = o.result]
         /\ outputs' = o.outputs
    /\ invokedBy' = invokedBy \cup {"worker"}
    /\ UNCHANGED <<store, nextJob, queue, redelivered, files, now, req,
                   deleteLog, lostWhile, rmFailed,
                   lastDelete, listed, agentTools, crew>>

\* The deadline of the job passes while run_crew (line 48) is running.  The
\* Worker of line 105 enforces it by raising JobTimeoutException, a subclass
\* of Exception, in the job; the except of run_crew (analysis.py lines 55-58)
\* catches it and returns its text as the result.
W_Timeout(w) ==
    /\ wk[w].pc = "run"
    /\ wk' = [wk EXCEPT ![w].pc = "complete", ![w].result = DeadlineText]
    /\ invokedBy' = invokedBy \cup {"worker"}
    /\ UNCHANGED <<store, nextJob, queue, redelivered, files, outputs, now, req,
                   deleteLog, lostWhile, rmFailed, lastDelete, listed,
                   agentTools, crew>>

\* Lines 51-56 without the guard of line 50: a job whose row is missing gets
\* one.
W_CompleteUpsert(w) ==
    LET j == wk[w].job
    IN  /\ wk[w].pc = "complete"
        /\ wk' = [wk EXCEPT ![w].pc = "cleanup"]
        /\ store' = [store EXCEPT ![j] = [status |-> "completed",
                                          analysis_result |-> wk[w].result]]
        /\ UNCHANGED <<nextJob, queue, redelivered, files, outputs, now, req,
                       invokedBy, deleteLog, lostWhile, rmFailed,
                       lastDelete, listed, agentTools, crew>>

\* Lines 51-56.  The row object was expired by the commit of line 45, so both
\* columns are written.
W_Complete(w) ==
    LET j == wk[w].job
        a == wk[w].analysis
    IN  /\ wk[w].pc = "complete"
        /\ \E dbok \in BOOLEAN :
             IF a = NoRecord
             THEN /\ dbok
                  /\ wk' = [wk EXCEPT ![w].pc = "cleanup"]
                  /\ store' = store
             ELSE IF ~dbok
             THEN /\ wk' = [wk EXCEPT ![w].pc = "except",
                                      ![w].err = <<"database is locked">>]
                  /\ store' = store
             ELSE IF store[j] = NoRecord
             THEN /\ wk' = [wk EXCEPT ![w].pc = "except", ![w].err = StaleText]
                  /\ store' = store
             ELSE /\ wk' = [wk EXCEPT ![w].pc = "cleanup"]
                  /\ store' = [store EXCEPT ![j] =
                                 [status |-> "completed",
                                  analysis_result |-> wk[w].result]]
        /\ UNCHANGED <<nextJob, queue, redelivered, files, outputs, now, req,
                       invokedBy, deleteLog, lostWhile, rmFailed,
                       lastDelete, listed, agentTools, crew>>

\* Lines 58-70.
W_Cleanup(w) ==
    /\ wk[w].pc = "cleanup"
    /\ \E removed \in BOOLEAN :
         /\ files' = CleanupSuccess(files, JobPath(wk[w].job), removed)
         /\ rmFailed' = rmFailed \cup
                          RemoveFailed(files, JobPath(wk[w].job), removed)
    /\ wk' = [wk EXCEPT ![w] = [IdleWorker EXCEPT !.job = wk[w].job,
                                                  !.result = wk[w].result,
                                                  !.ret = "success"]]
    /\ UNCHANGED <<store, nextJob, queue, redelivered, outputs, now, req,
                   invokedBy, deleteLog, lostWhile,
                   lastDelete, listed, agentTools, crew>>

\* Lines 72-76: the handler loads the row again.
W_Except(w) ==
    /\ wk[w].pc = "except"
    /\ wk' = [wk EXCEPT ![w].pc = "exwrite", ![w].analysis = store[wk[w].job]]
    /\ UNCHANGED <<store, nextJob, queue, redelivered, files, outputs, now, req,
                   invokedBy, deleteLog, lostWhile, rmFailed,
                   lastDelete, listed, agentTools, crew>>

\* Lines 77-82.  A commit that raises here leaves the handler: db.close() and
\* the outer except (lines 93-98) return the error without the cleanup.
W_ExceptWrite(w) ==
    LET j == wk[w].job
        a == wk[w].analysis
        new == [status |-> "failed",
                analysis_result |-> WorkerErrorText(wk[w].err)]
        escaped(cause) == [IdleWorker EXCEPT !.job = j, !.err = cause,
                                             !.result = wk[w].result,
                                             !.ret = "error"]
    IN  /\ wk[w].pc = "exwrite"
        /\ \E dbok \in BOOLEAN :
             IF a = NoRecord \/ Dirty(a, new) = {}
             THEN /\ dbok
                  /\ wk' = [wk EXCEPT ![w].pc = "excleanup"]
                  /\ store' = store
             ELSE IF ~dbok
             THEN /\ wk' = [wk EXCEPT ![w] = escaped(<<"database is locked">>)]
                  /\ store' = store
             ELSE IF store[j] = NoRecord
             THEN /\ wk' = [wk EXCEPT ![w] = escaped(StaleText)]
                  /\ store' = store
             ELSE /\ wk' = [wk EXCEPT ![w].pc = "excleanup"]
                  /\ store' = [store EXCEPT ![j] = Written(store[j], a, new)]
        /\ UNCHANGED <<nextJob, queue, redelivered, files, outputs, now, req,
                       invokedBy, deleteLog, lostWhile, rmFailed,
                       lastDelete, listed, agentTools, crew>>

\* Lines 84-91.
W_ExceptCleanup(w) ==
    /\ wk[w].pc = "excleanup"
    /\ \E removed \in BOOLEAN :
         /\ files' = CleanupError(files, JobPath(wk[w].job), removed)
         /\ rmFailed' = rmFailed \cup
                          RemoveFailed(files, JobPath(wk[w].job), removed)
    /\ wk' = [wk EXCEPT ![w] = [IdleWorker EXCEPT !.job = wk[w].job,
                                                  !.result = wk[w].result,
                                                  !.err = wk[w].err,
                                                  !.ret = "error"]]
    /\ UNCHANGED <<store, nextJob, queue, redelivered, outputs, now, req,
                   invokedBy, deleteLog, lostWhile,
                   lastDelete, listed, agentTools, crew>>

process_analysis(w) ==
    \/ W_Begin(w)
    \/ W_SetProcessing(w)
    \/ W_RunCrew(w)
    \/ W_Timeout(w)
    \/ W_Complete(w)
    \/ W_Cleanup(w)
    \/ W_Except(w)
    \/ W_ExceptWrite(w)
    \/ W_ExceptCleanup(w)

\* ----------------------------------------------------------------- main.py
\* Uploaded filenames, as token sequences; <<>> is a missing filename.
Filenames == {<<>>, <<"report", ".txt">>, <<"sample", ".pdf">>, <<"SCAN", ".PDF">>}
Bodies == {"empty", "data"}
Lower(tok) == IF tok = ".PDF" THEN ".pdf" ELSE IF tok = "SCAN" THEN "scan" ELSE tok
\* Line 158 without its test: every upload is taken for a PDF.
ValidFilenameAny(name) == TRUE

\* file.filename and file.filename.lower().endswith(".pdf"), line 158
ValidFilename(name) == name # <<>> /\ Lower(name[Len(name)]) = ".pdf"

\* The cleanup of the except branch (lines 203-208) and of the background
\* task cleanup_file (lines 335-351).
CleanupIntake(fs, p, removed) == IF p \in fs /\ removed THEN fs \ {p} ELSE fs
cleanup_file(fs, p, removed) == IF p \in fs /\ removed THEN fs \ {p} ELSE fs

\* Lines 157-173: validate the extension, pick the path, open it "wb" (which
\* creates the file) and await the upload body.
A_Open(r) ==
    /\ req[r].pc = "new"
    /\ \E name \in Filenames, body \in Bodies :
         IF ~ValidFilename(name)
         THEN /\ req' = [req EXCEPT ![r] = [NewReq EXCEPT !.pc = "done",
                                                          !.filename = name,
                                                          !.code = 400,
                                                          !.status = "invalid format"]]
              /\ files' = files
         ELSE /\ req' = [req EXCEPT ![r] = [NewReq EXCEPT !.pc = "read",
                                                          !.filename = name,
                                                          !.body = body]]
              /\ files' = files \cup {ReqPath(r)}
    /\ UNCHANGED <<store, nextJob, queue, redelivered, outputs, now, wk,
                   invokedBy, deleteLog, lostWhile, rmFailed,
                   lastDelete, listed, agentTools, crew>>

\* Lines 174-179 and 199-201: an empty body raises the 400, which the handler
\* re-raises as it is.
A_Empty(r) ==
    /\ req[r].pc = "read"
    /\ req[r].body = "empty"
    /\ req' = [req EXCEPT ![r].pc = "done", ![r].code = 400,
                          ![r].status = "empty file"]
    /\ UNCHANGED <<store, nextJob, queue, redelivered, files, outputs, now, wk,
                   invokedBy, deleteLog, lostWhile, rmFailed,
                   lastDelete, listed, agentTools, crew>>

\* Lines 179 and 202-212: f.write raises; the file is removed and 500 answered.
A_WriteError(r) ==
    /\ req[r].pc = "read"
    /\ req[r].body = "data"
    /\ \E removed \in BOOLEAN :
         /\ files' = CleanupIntake(files, ReqPath(r), removed)
         /\ rmFailed' = rmFailed \cup RemoveFailed(files, ReqPath(r), removed)
    /\ req' = [req EXCEPT ![r].pc = "done", ![r].code = 500,
                          ![r].status = "error"]
    /\ UNCHANGED <<store, nextJob, queue, redelivered, outputs, now, wk,
                   invokedBy, deleteLog, lostWhile,
                   lastDelete, listed, agentTools, crew>>

\* Lines 179-197: write the body, run the crew in the handler, schedule
\* cleanup_file and answer.
A_Analyze(r) ==
    /\ req[r].pc = "read"
    /\ req[r].body = "data"
    /\ \E o \in run_crew(ReqPath(r), files, outputs, now) :
         /\ req' = [req EXCEPT ![r].pc = "responded", ![r].code = 200,
                               ![r].status = "success",
                               ![r].analysis = o.result]
         /\ outputs' = o.outputs
    /\ invokedBy' = invokedBy \cup {"api"}
    /\ UNCHANGED <<store, nextJob, queue, redelivered, files, now, wk,
                   deleteLog, lostWhile, rmFailed,
                   lastDelete, listed, agentTools, crew>>

\* Lines 335-351, run as a background task after the response.
A_CleanupFile(r) ==
    /\ req[r].pc = "responded"
    /\ \E removed \in BOOLEAN :
         /\ files' = cleanup_file(files, ReqPath(r), removed)
         /\ rmFailed' = rmFailed \cup RemoveFailed(files, ReqPath(r), removed)
    /\ req' = [req EXCEPT ![r].pc = "done"]
    /\ UNCHANGED <<store, nextJob, queue, redelivered, outputs, now, wk,
                   invokedBy, deleteLog, lostWhile,
                   lastDelete, listed, agentTools, crew>>

analyze_blood_report(r) ==
    \/ A_Open(r)
    \/ A_Empty(r)
    \/ A_WriteError(r)
    \/ A_Analyze(r)
    \/ A_CleanupFile(r)

\* Ids a client may name: a job id (a uuid) or the stem of a file of outputs/
\* (blood_test_report_<uuid>_<timestamp>); the two never coincide.
JobId(j) == [kind |-> "job", a |-> j, b |-> 0]
OutputId(path, t) == [kind |-> "out", a |-> path, b |-> t]
AnalysisIds == {JobId(j) : j \in Jobs}
                 \cup {OutputId(p, t) : p \in Paths, t \in 0..MaxClock}
\* os.path.exists(f"outputs/{analysis_id}.json")
OutputExists(id, out) == id.kind = "out" /\ <<id.a, id.b>> \in out

\* os.remove skipped: the DELETE answers 200 and keeps the file.
RemoveOutputSkipped(out, id) == out

\* Line 305: os.remove(f"outputs/{analysis_id}.json").
RemoveOutput(out, id) == out \ {<<id.a, id.b>>}

\* A DELETE that clears the whole of outputs/ when the id exists.
delete_analysisAll(id) ==
    /\ outputs' = IF OutputExists(id, outputs) THEN {} ELSE outputs
    /\ lastDelete' = [id |-> id,
                      code |-> IF OutputExists(id, outputs) THEN 200 ELSE 404,
                      after200 |-> lastDelete.id = id /\ lastDelete.code = 200]
    /\ deleteLog' = IF id.kind = "job" /\ store[id.a].status = "pending"
                    THEN deleteLog \cup {id.a}
                    ELSE deleteLog
    /\ UNCHANGED <<store, nextJob, queue, redelivered, files, now, wk, req,
                   invokedBy, lostWhile, rmFailed, listed, agentTools, crew>>

\* Lines 287-317: 404 unless outputs/<id>.json exists, else remove that file
\* and answer 200.  os.remove is taken to succeed on a file that exists (the
\* 500 of lines 314-317 is not modelled).
delete_analysis(id) ==
    /\ outputs' = IF OutputExists(id, outputs)
                  THEN RemoveOutput(outputs, id)
                  ELSE outputs
    /\ lastDelete' = [id |-> id,
                      code |-> IF OutputExists(id, outputs) THEN 200 ELSE 404,
                      after200 |-> lastDelete.id = id /\ lastDelete.code = 200]
    /\ deleteLog' = IF id.kind = "job" /\ store[id.a].status = "pending"
                    THEN deleteLog \cup {id.a}
                    ELSE deleteLog
    /\ UNCHANGED <<store, nextJob, queue, redelivered, files, now, wk, req,
                   invokedBy, lostWhile, rmFailed, listed, agentTools, crew>>

\* An entry of the list is the record <<staged path, timestamp>> of outputs/.
\* Its analysis_date is the clock value at which it was saved; two records
\* saved at the same clock value carry equal dates.
AnalysisDate(e) == e[2]

\* os.listdir("outputs") gives the files in an arbitrary order.
Listdir(out) ==
    {s \in [1..Cardinality(out) -> out] :
       \A a, b \in 1..Cardinality(out) : a # b => s[a] # s[b]}

\* Put e behind every entry of the sorted list s that is at least as new.
InsertByDate(e, s) ==
    LET older == {k \in 1..Len(s) : AnalysisDate(s[k]) < AnalysisDate(e)}
        at == IF older = {} THEN Len(s) + 1
              ELSE CHOOSE k \in older : \A m \in older : k <= m
    IN  SubSeq(s, 1, at - 1) \o <<e>> \o SubSeq(s, at, Len(s))

\* Line 247: analyses.sort(key=analysis_date, reverse=True).  The sort is
\* stable: entries of equal date keep the order of the listing.
RECURSIVE SortByDate(_)
SortByDate(s) ==
    IF s = <<>> THEN <<>>
    ELSE InsertByDate(s[Len(s)], SortByDate(SubSeq(s, 1, Len(s) - 1)))

\* Lines 256-284: 404 unless outputs/<id>.json exists, else the content of
\* that file.  The handler reads and changes no state of the program.
get_analysis(id, out) ==
    IF OutputExists(id, out)
    THEN [code |-> 200, entry |-> <<id.a, id.b>>]
    ELSE [code |-> 404, entry |-> <<>>]

\* Lines 215-253.
get_analyses ==
    /\ \E l \in Listdir(outputs) : listed' = SortByDate(l)
    /\ UNCHANGED <<store, nextJob, queue, redelivered, files, outputs, now, wk,
                   req, invokedBy, deleteLog, lostWhile, rmFailed, lastDelete,
                   agentTools, crew>>

\* ------------------------------------------------------------ specification
\* The job pipeline: producer, broker, Job Store and the worker pool.
Next ==
    \/ Submit
    \/ \E j \in Jobs : Redeliver(j)
    \/ \E j \in Jobs : JobStoreDelete(j)
    \/ \E w \in Workers : process_analysis(w)

Spec == Init /\ [][Next]_vars

\* The HTTP front end: intake, its background cleanup, DELETE, the list, and
\* the clock.
NextApi ==
    \/ Tick
    \/ \E r \in Reqs : analyze_blood_report(r)
    \/ \E id \in AnalysisIds : delete_analysis(id)
    \/ get_analyses

SpecApi == Init /\ [][NextApi]_vars

\* The DELETE endpoint next to the pipeline, with one worker draining the queue.
NextDelete ==
    \/ Submit
    \/ \E j \in Jobs : JobStoreDelete(j)
    \/ process_analysis(1)
    \/ \E id \in AnalysisIds : delete_analysis(id)

SpecDelete == Init /\ [][NextDelete]_vars

\* run_crew step by step, for the binding of the tools.  One set of agents for
\* every process: what threads of one process would share.
AgentsShared(p) == ApiProc

\* The agents doctor, verifier, nutritionist and exercise_specialist are
\* objects of the module agents, which every process imports for itself.
AgentsOf(p) == p

\* analysis.py lines 31-40, after the file was found: the tools of the agents
\* are replaced by tools for file_path.  A process runs one run_crew at a
\* time: the handler of main.py calls it synchronously on the event loop
\* (line 186), an rq Worker performs one job after the other.
AssignTools(p) ==
    /\ crew[p].pc = "idle"
    /\ \E path \in Paths :
         /\ agentTools' = [agentTools EXCEPT ![AgentsOf(p)] = path]
         /\ crew' = [crew EXCEPT ![p] = [pc |-> "kickoff", path |-> path,
                                         read |-> SamplePath]]
    /\ UNCHANGED <<store, nextJob, queue, redelivered, files, outputs, now, wk,
                   req, invokedBy, deleteLog, lostWhile, rmFailed, lastDelete,
                   listed>>

\* analysis.py lines 42-49: kickoff with the inputs query and file_path.  The
\* file that gets read is the one of the tool the agents hold, the one of the
\* tools the tasks were built with (tasks.py, the default path), or the
\* file_path of the inputs.
Kickoff(p) ==
    /\ crew[p].pc = "kickoff"
    /\ \E path \in {agentTools[AgentsOf(p)], SamplePath, crew[p].path} :
         crew' = [crew EXCEPT ![p].pc = "idle", ![p].read = path]
    /\ UNCHANGED <<store, nextJob, queue, redelivered, files, outputs, now, wk,
                   req, invokedBy, deleteLog, lostWhile, rmFailed, lastDelete,
                   listed, agentTools>>

NextAgents == \E p \in Procs : AssignTools(p) \/ Kickoff(p)

SpecAgents == Init /\ [][NextAgents]_vars

\* Uploads next to the pipeline: the intake handler and its cleanup task run
\* while a worker processes staged jobs.
NextStaging ==
    \/ Submit
    \/ process_analysis(1)
    \/ \E r \in Reqs : analyze_blood_report(r)

SpecStaging == Init /\ [][NextStaging]_vars

\* ------------------------------------------------------------------ claims
Returned(w) == wk[w].pc = "idle" /\ wk[w].ret # "none"
Running(j) == \E w \in Workers : wk[w].pc # "idle" /\ wk[w].job = j

\* The statuses that may follow a status in the DAG
\* pending -> processing -> {completed, failed}, pending -> cancelled.
Reach(s) ==
    IF s = "pending"
    THEN {"pending", "processing", "completed", "failed", "cancelled"}
    ELSE IF s = "processing" THEN {"processing", "completed", "failed"}
    ELSE {s}

\* C1: the status stored for a job only ever moves along the DAG: no step takes
\* a row from completed or failed to another status, or from processing back to
\* pending.
C1_MonotonicStatus ==
    [][\A j \in Jobs :
          (store[j] # NoRecord /\ store'[j] # NoRecord)
              => store'[j].status \in Reach(store[j].status)]_vars

\* C2: a process_analysis call that loaded a completed or failed row leaves the
\* row's status and artifact as they are in every step it takes.
C2_TerminalRedeliveryFrame ==
    [][\A w \in Workers :
          (/\ wk[w].pc \in {"setproc", "run", "complete"}
           /\ wk[w].analysis.status \in {"completed", "failed"}
           /\ wk'[w] # wk[w])
              => store'[wk[w].job] = store[wk[w].job]]_vars

\* C3: when the analyzer failed for a job (missing file, pipeline error), the
\* worker that returns leaves the row failed with an artifact beginning
\* "Error:" and the staged file deleted.
AnalyzerFailed(result) == result \in {NotFoundText, CrewErrorText}
C3_AnalyzerFailureIsFailed ==
    \A w \in Workers :
        (/\ Returned(w)
         /\ AnalyzerFailed(wk[w].result)
         /\ store[wk[w].job] # NoRecord
         /\ ~Running(wk[w].job)
         /\ JobPath(wk[w].job) \notin rmFailed)
            => /\ store[wk[w].job].status = "failed"
               /\ BeginsWith(store[wk[w].job].analysis_result, ErrorColon)
               /\ JobPath(wk[w].job) \notin files

\* C4: a row has a non-empty artifact exactly when its status is completed or
\* failed.
C4_ArtifactPresence ==
    \A j \in Jobs :
        store[j] # NoRecord
            => (store[j].analysis_result # NoText
                  <=> store[j].status \in {"completed", "failed"})

\* C5 (as stated): whenever a row's status is terminal, its staged file does
\* not exist.
C5_NoFileAtTerminal ==
    \A j \in Jobs :
        store[j].status \in Terminal => JobPath(j) \notin files

\* C5 (amended): a row with a terminal status has no staged file once no
\* process_analysis call is running for that job, unless an os.remove of the
\* file failed.
C5_NoFileAfterReturn ==
    \A j \in Jobs :
        (/\ store[j].status \in Terminal
         /\ ~Running(j)
         /\ JobPath(j) \notin rmFailed)
            => JobPath(j) \notin files
C5_Witness ==
    \E w \in Workers :
        /\ Returned(w)
        /\ wk[w].ret = "success"
        /\ store[wk[w].job].status = "completed"
        /\ ~Running(wk[w].job)
        /\ JobPath(wk[w].job) \notin rmFailed
        /\ JobPath(wk[w].job) \notin files

\* C6: once an intake request has been answered with an error, no file exists
\* at the staged path of that request (an os.remove that failed aside).
C6_ErrorPathsUnstage ==
    \A r \in Reqs :
        (req[r].code >= 400 /\ ReqPath(r) \notin rmFailed)
            => ReqPath(r) \notin files

\* C7: the intake handler never calls the analyzer; a response to a submission
\* is produced before any analysis of it has run.
C7_HandlerNeverAnalyzes ==
    /\ "api" \notin invokedBy
    /\ \A r \in Reqs : req[r].code = 200 => req[r].analysis = NoText

\* C8: a successful intake response carries status "processing" and the
\* analysis_id of a row that exists in the Job Store.
C8_ResponseAfterPendingRecord ==
    \A r \in Reqs :
        req[r].code = 200
            => /\ req[r].status = "processing"
               /\ req[r].analysis_id \in Jobs
               /\ store[req[r].analysis_id] # NoRecord

\* C9: a job for which DELETE /analyses/{id} was requested while it was pending
\* never has status processing afterwards.
C9_CancelBeforeRun ==
    \A j \in deleteLog : store[j].status # "processing"

\* C10: when the row was deleted while the worker processed the job, the
\* worker returns with no row in place and without reporting the missed
\* terminal write as an error.
C10_LateTerminalHarmless ==
    \A w \in lostWhile :
        Returned(w)
            => /\ store[wk[w].job] = NoRecord
               /\ ~(wk[w].ret = "error" /\ wk[w].err = StaleText)

\* C11: a process_analysis call that found no row for its job id (the record
\* was deleted before the dequeue) writes nothing to the Job Store in any of
\* its steps: no record is created, no status and no artifact is set.
C11_NoWriteForDeletedJob ==
    [][\A w \in Workers :
         (/\ wk[w].pc \in {"setproc", "run", "complete", "cleanup"}
          /\ wk[w].analysis = NoRecord
          /\ wk'[w] # wk[w])
         => /\ store[wk[w].job] = NoRecord
            /\ store' = store]_vars

\* A call that loaded no row has passed lines 50-56 and is about to return.
C11_Witness ==
    \E w \in Workers : /\ wk[w].pc = "cleanup"
                        /\ wk[w].analysis = NoRecord
                        /\ wk[w].result # NoText
                        /\ store[wk[w].job] = NoRecord

\* C12: a worker whose load of the row found no record, or found a row that
\* may not become processing (already completed or failed), discards the job:
\* it never gets past the analyzer call for it.
C12_DiscardWithoutRecord ==
    \A w \in Workers :
        wk[w].pc = "complete"
        => /\ wk[w].analysis # NoRecord
           /\ wk[w].analysis.status \notin {"completed", "failed"}

\* C13: with the workers draining the queue concurrently, redeliveries
\* included, a job undergoes one terminal transition only: no step writes a
\* terminal status to a row that is already completed or failed.
C13_OneTerminalTransition ==
    [][\A j \in Jobs :
         (/\ store[j].status \in {"completed", "failed"}
          /\ store'[j].status \in {"completed", "failed"})
         => store'[j] = store[j]]_vars

IdBefore(x, y) == x[1] < y[1] \/ (x[1] = y[1] /\ x[2] < y[2])

\* C15: the list of GET /analyses is strictly decreasing by (date, id): a
\* newer entry comes first, and of two entries of equal date the one with the
\* greater id comes first.
C15_ListStrictlyDecreasing ==
    \A k \in 1..(Len(listed) - 1) :
        \/ AnalysisDate(listed[k]) > AnalysisDate(listed[k + 1])
        \/ /\ AnalysisDate(listed[k]) = AnalysisDate(listed[k + 1])
           /\ IdBefore(listed[k + 1], listed[k])

\* C16: no submitted job that still has its record stays pending or processing
\* forever: once the queue is drained and every worker has returned, each
\* existing job is completed or failed.
C16_EveryJobFinishes ==
    (queue = <<>> /\ \A w \in Workers : wk[w].pc = "idle")
    => \A j \in Jobs :
           store[j] # NoRecord => store[j].status \in {"completed", "failed"}

\* C17: a process_analysis call that ended on an exception leaves its job, if
\* the record still exists and no other delivery of the job interferes, with
\* status failed, an artifact "Error: <message>" and no staged file (unless
\* the os.remove failed).
C17_ExceptionLeavesFailed ==
    \A w \in Workers :
        (/\ Returned(w)
         /\ wk[w].ret = "error"
         /\ redelivered = 0
         /\ store[wk[w].job] # NoRecord
         /\ JobPath(wk[w].job) \notin rmFailed)
        => /\ store[wk[w].job].status = "failed"
           /\ BeginsWith(store[wk[w].job].analysis_result, ErrorColon)
           /\ JobPath(wk[w].job) \notin files

\* C18: a job whose run hit the processing deadline, delivered once and with
\* its record still there, is failed with the artifact "timeout exceeded"
\* once its call has returned.
C18_DeadlineForcesFailed ==
    \A w \in Workers :
        (/\ Returned(w)
         /\ wk[w].result = DeadlineText
         /\ redelivered = 0
         /\ store[wk[w].job] # NoRecord)
        => /\ store[wk[w].job].status = "failed"
           /\ store[wk[w].job].analysis_result = TimeoutExceeded

\* C19: a process_analysis call that invoked the analyzer has, on whatever
\* path it returned, tried to delete the staged file: with no other call
\* running for the job, the file is gone unless an os.remove of it failed.
C19_EveryExitUnstages ==
    \A w \in Workers :
        (/\ Returned(w)
         /\ wk[w].result # NoText
         /\ ~Running(wk[w].job)
         /\ JobPath(wk[w].job) \notin rmFailed)
        => JobPath(wk[w].job) \notin files

\* A filename that is given and ends in ".pdf" in either case.
EndsInPdf(name) == name # <<>> /\ name[Len(name)] \in {".pdf", ".PDF"}

\* C20: a POST /analyze whose filename is missing or does not end in ".pdf"
\* (in either case) is answered 400 with nothing staged: no file under its
\* staging path, no record in the table, no analysis made or saved for it.
C20_InvalidNameRejectedUnstaged ==
    \A r \in Reqs :
        (req[r].pc # "new" /\ ~EndsInPdf(req[r].filename))
        => /\ req[r].code = 400
           /\ req[r].pc = "done"
           /\ ReqPath(r) \notin files
           /\ req[r].analysis = NoText
           /\ \A t \in 0..MaxClock : <<ReqPath(r), t>> \notin outputs
           /\ \A j \in Jobs : store[j] = NoRecord

\* A request named report.txt, or with no filename, has been answered.
C20_Witness ==
    \E r \in Reqs : /\ req[r].pc = "done"
                    /\ req[r].filename \in {<<>>, <<"report", ".txt">>}
                    /\ req[r].code = 400

\* C21: the Job Store alone decides what the status queries answer: for every
\* job that has a record, GET /analyses/{job id} answers 200, and GET
\* /analyses lists as many entries as the Job Store holds records, whatever
\* files exist.
C21_StoreDecidesQueries ==
    /\ \A j \in Jobs :
           store[j] # NoRecord => get_analysis(JobId(j), outputs).code = 200
    /\ \A l \in Listdir(outputs) :
           Len(SortByDate(l)) = Cardinality({j \in Jobs : store[j] # NoRecord})

\* C22: no two uploads get the same staged path, and nobody's cleanup takes
\* another one's staged file away: the file of an upload that is staged and
\* not yet cleaned up survives every step that is not the upload's own, and
\* the file of a job is removed only by a worker processing that job.
C22_StagedFilesAreOwn ==
    [][/\ \A r1, r2 \in Reqs : r1 # r2 => ReqPath(r1) # ReqPath(r2)
       /\ \A r \in Reqs, j \in Jobs : ReqPath(r) # JobPath(j)
       /\ \A r \in Reqs :
              (/\ req[r].pc \in {"read", "responded"}
               /\ req'[r] = req[r]
               /\ ReqPath(r) \in files)
              => ReqPath(r) \in files'
       /\ \A j \in Jobs :
              (JobPath(j) \in files /\ JobPath(j) \notin files')
              => \E w \in Workers : wk[w].job = j /\ wk'[w] # wk[w]]_vars

\* One upload has been cleaned up while the staged files of another upload
\* and of a job exist.
C22_Witness ==
    \E r1, r2 \in Reqs :
        /\ req[r1].pc = "done" /\ req[r1].code = 200
        /\ ReqPath(r1) \notin files
        /\ req[r2].pc \in {"read", "responded"}
        /\ ReqPath(r2) \in files
        /\ \E j \in Jobs : JobPath(j) \in files

\* C23: while a process is between the assignment of the tools and the return
\* of kickoff for a staged file, the tool its agents hold refers to that
\* file, whatever the other processes do; and what a run has read is never
\* the staged file of another run.
C23_ToolsReferToOwnFile ==
    \A p \in Procs :
        /\ crew[p].pc = "kickoff" => agentTools[AgentsOf(p)] = crew[p].path
        /\ crew[p].read \in {SamplePath, crew[p].path}

\* Two processes are inside kickoff for different files at the same time.
C23_Witness ==
    \E p, q \in Procs :
        /\ p # q
        /\ crew[p].pc = "kickoff" /\ crew[q].pc = "kickoff"
        /\ crew[p].path # crew[q].path

\* C24: run_crew always hands its caller a value and never an exception: the
\* worker goes on to line 50 with a result after every call, and when the
\* staged file is missing or the pipeline threw, that result is a text that
\* begins with "Error".
C24_RunCrewAlwaysReturns ==
    [][\A w \in Workers :
         (wk[w].pc = "run" /\ wk'[w] # wk[w])
         => /\ wk'[w].pc = "complete"
            /\ wk'[w].err = NoText
            /\ wk'[w].result # NoText
            /\ JobPath(wk[w].job) \notin files
                 => BeginsWith(wk'[w].result, <<"Error">>)
            /\ wk'[w].result # Report
                 => BeginsWith(wk'[w].result, <<"Error">>)]_vars

\* A call for a staged file that is gone has returned to the worker.
C24_Witness ==
    \E w \in Workers : /\ wk[w].pc = "complete"
                        /\ wk[w].result = NotFoundText
                        /\ JobPath(wk[w].job) \notin files

\* C25: a run_crew call adds a record to outputs/ only when kickoff returned
\* normally, and then the record of its own staged file at the time of the
\* call; a call that ends in the missing-file branch or in the exception
\* branch leaves outputs/ as it was.
C25_RecordOnlyOnSuccess ==
    [][\A w \in Workers :
         (wk[w].pc = "run" /\ wk'[w] # wk[w])
         => /\ wk'[w].result # Report => outputs' = outputs
            /\ outputs' # outputs
                 => /\ wk'[w].result = Report
                    /\ outputs' = outputs \cup {<<JobPath(wk[w].job), now>>}]_vars

\* kickoff returned normally, the record could not be written, and the caller
\* holds the result all the same.
C25_Witness ==
    \E w \in Workers : /\ wk[w].pc = "complete"
                        /\ wk[w].result = Report
                        /\ \A t \in 0..MaxClock :
                               <<JobPath(wk[w].job), t>> \notin outputs

\* C26: a DELETE /analyses/{id} answered 200 removes the record of that id and
\* no other record; it leaves every staged file, every row of the Job Store,
\* the queue and the workers as they were; one answered 404 removes nothing.
C26_DeleteFrame ==
    [][lastDelete' # lastDelete
       => /\ lastDelete'.code = 200
             => outputs' = outputs \ {<<lastDelete'.id.a, lastDelete'.id.b>>}
          /\ lastDelete'.code = 404 => outputs' = outputs
          /\ files' = files
          /\ store' = store
          /\ queue' = queue
          /\ wk' = wk]_vars

\* A DELETE has been answered 200 while another record, a staged file and a
\* job row exist.
C26_Witness ==
    /\ lastDelete.code = 200
    /\ outputs # {}
    /\ files # {}
    /\ \E j \in Jobs : store[j] # NoRecord

====
